---- MODULE Spec2Model ----
(***************************************************************************)
(* The IMC (body-mass-index) application: the Home form (App.js), the      *)
(* record list (registro.jsx) and the per-user chart view (grafica), over  *)
(* the single AsyncStorage key 'imcRecords'.                               *)
(*                                                                         *)
(* Texts are sequences of one-character strings, so that trim,             *)
(* toLowerCase, parseFloat, toFixed and toString are computed character    *)
(* by character.  JavaScript numbers that come from decimal texts are kept *)
(* as decimals [m, e] (value m / 10^e, normalised); the arithmetic of       *)
(* calculateIMC is done on IEEE-754 doubles with exact rounding.           *)
(***************************************************************************)
EXTENDS Integers, Sequences, FiniteSets, TLC

-----------------------------------------------------------------------------
(* Characters and texts *)

Digits == <<"0", "1", "2", "3", "4", "5", "6", "7", "8", "9">>

UpperCase == <<"A", "B", "C", "D", "E", "F", "G", "H", "I", "J", "K", "L", "M",
               "N", "O", "P", "Q", "R", "S", "T", "U", "V", "W", "X", "Y", "Z">>

LowerCase == <<"a", "b", "c", "d", "e", "f", "g", "h", "i", "j", "k", "l", "m",
               "n", "o", "p", "q", "r", "s", "t", "u", "v", "w", "x", "y", "z">>

IsDigit(c) == \E i \in 1..10 : Digits[i] = c

DigitVal(c) == (CHOOSE i \in 1..10 : Digits[i] = c) - 1

IsSpace(c) == c = " "

\* String.prototype.toLowerCase, one character
LowerChar(c) ==
    IF \E i \in 1..26 : UpperCase[i] = c
    THEN LowerCase[CHOOSE i \in 1..26 : UpperCase[i] = c]
    ELSE c

\* String.prototype.toLowerCase
ToLowerCase(s) == [i \in 1..Len(s) |-> LowerChar(s[i])]

RECURSIVE TrimStart(_)
TrimStart(s) ==
    IF s # <<>> /\ IsSpace(Head(s)) THEN TrimStart(Tail(s)) ELSE s

RECURSIVE TrimEnd(_)
TrimEnd(s) ==
    IF s # <<>> /\ IsSpace(s[Len(s)]) THEN TrimEnd(SubSeq(s, 1, Len(s) - 1)) ELSE s

\* String.prototype.trim
Trim(s) == TrimEnd(TrimStart(s))

-----------------------------------------------------------------------------
(* Numbers *)

RECURSIVE Pow10(_)
Pow10(k) == IF k = 0 THEN 1 ELSE 10 * Pow10(k - 1)

RECURSIVE Gcd(_, _)
Gcd(a, b) == IF b = 0 THEN a ELSE Gcd(b, a % b)

\* The JavaScript number m / 10^e, without trailing fractional zeros
RECURSIVE Dec(_, _)
Dec(m, e) ==
    IF e > 0 /\ m % 10 = 0 THEN Dec(m \div 10, e - 1) ELSE [m |-> m, e |-> e]

\* The value NaN (parseFloat of a text with no leading number)
NaN == [nan |-> TRUE, m |-> 0, e |-> 0]

Num(m, e) == [nan |-> FALSE, m |-> Dec(m, e).m, e |-> Dec(m, e).e]

\* The longest prefix of s made of digits
RECURSIVE DigitPrefix(_)
DigitPrefix(s) ==
    IF s # <<>> /\ IsDigit(Head(s)) THEN <<Head(s)>> \o DigitPrefix(Tail(s)) ELSE <<>>

\* The decimal value of a sequence of digits
RECURSIVE DigitsVal(_)
DigitsVal(ds) ==
    IF ds = <<>> THEN 0
    ELSE 10 * DigitsVal(SubSeq(ds, 1, Len(ds) - 1)) + DigitVal(ds[Len(ds)])

\* The decimal digits of a natural number
RECURSIVE NatToString(_)
NatToString(n) ==
    IF n < 10 THEN <<Digits[n + 1]>>
    ELSE NatToString(n \div 10) \o <<Digits[(n % 10) + 1]>>

\* parseFloat: leading white space, an optional sign, digits, an optional
\* fraction; NaN when no digit is read.  (Exponents are not read: no text of
\* this application holds one.)
ParseFloat(s) ==
    LET t    == TrimStart(s)
        neg  == t # <<>> /\ Head(t) = "-"
        u    == IF t # <<>> /\ Head(t) \in {"-", "+"} THEN Tail(t) ELSE t
        ip   == DigitPrefix(u)
        r    == SubSeq(u, Len(ip) + 1, Len(u))
        fp   == IF r # <<>> /\ Head(r) = "." THEN DigitPrefix(Tail(r)) ELSE <<>>
        mag  == DigitsVal(ip \o fp)
    IN  IF ip = <<>> /\ fp = <<>> THEN NaN
        ELSE Num(IF neg THEN 0 - mag ELSE mag, Len(fp))

-----------------------------------------------------------------------------
(* IEEE-754 doubles.  A natural number of any size is a sequence of limbs in *)
(* base 10000, least significant first, without leading zero limbs; a       *)
(* positive double is [m, e] with value m * 2^e and 2^52 <= m < 2^53.       *)

RECURSIVE BNat(_)
BNat(n) == IF n = 0 THEN <<>> ELSE <<n % 10000>> \o BNat(n \div 10000)

RECURSIVE BInt(_)
BInt(a) == IF a = <<>> THEN 0 ELSE Head(a) + 10000 * BInt(Tail(a))

RECURSIVE BNorm(_)
BNorm(a) ==
    IF a # <<>> /\ a[Len(a)] = 0 THEN BNorm(SubSeq(a, 1, Len(a) - 1)) ELSE a

RECURSIVE BCmpFrom(_, _, _)
BCmpFrom(a, b, i) ==
    IF i = 0 THEN 0
    ELSE IF a[i] < b[i] THEN 0 - 1
    ELSE IF a[i] > b[i] THEN 1
    ELSE BCmpFrom(a, b, i - 1)

\* -1, 0 or 1 as a < b, a = b or a > b
BCmp(a, b) ==
    IF Len(a) < Len(b) THEN 0 - 1
    ELSE IF Len(a) > Len(b) THEN 1
    ELSE BCmpFrom(a, b, Len(a))

RECURSIVE BAddC(_, _, _)
BAddC(a, b, c) ==
    IF a = <<>> /\ b = <<>> THEN (IF c = 0 THEN <<>> ELSE <<c>>)
    ELSE LET x == (IF a = <<>> THEN 0 ELSE Head(a)) + (IF b = <<>> THEN 0 ELSE Head(b)) + c
         IN  <<x % 10000>> \o BAddC(IF a = <<>> THEN a ELSE Tail(a),
                                    IF b = <<>> THEN b ELSE Tail(b), x \div 10000)

BAdd(a, b) == BAddC(a, b, 0)

RECURSIVE BSubC(_, _, _)
BSubC(a, b, c) ==
    IF a = <<>> THEN <<>>
    ELSE LET x == Head(a) - (IF b = <<>> THEN 0 ELSE Head(b)) - c
         IN  <<(x + 10000) % 10000>>
               \o BSubC(Tail(a), IF b = <<>> THEN b ELSE Tail(b), IF x < 0 THEN 1 ELSE 0)

\* a - b for a >= b
BSub(a, b) == BNorm(BSubC(a, b, 0))

RECURSIVE BMulSmallC(_, _, _)
BMulSmallC(a, k, c) ==
    IF a = <<>> THEN BNat(c)
    ELSE <<(Head(a) * k + c) % 10000>> \o BMulSmallC(Tail(a), k, (Head(a) * k + c) \div 10000)

\* a * k for 0 <= k < 10000
BMulSmall(a, k) == BNorm(BMulSmallC(a, k, 0))

RECURSIVE BMul(_, _)
BMul(a, b) ==
    IF a = <<>> \/ b = <<>> THEN <<>>
    ELSE LET rest == BMul(a, Tail(b))
         IN  BAdd(BMulSmall(a, Head(b)), IF rest = <<>> THEN <<>> ELSE <<0>> \o rest)

RECURSIVE Pow2(_)
Pow2(k) == IF k = 0 THEN 1 ELSE 2 * Pow2(k - 1)

\* a * 2^k, thirteen bits at a time
RECURSIVE BShl(_, _)
BShl(a, k) ==
    IF k > 13 THEN BShl(BMulSmall(a, Pow2(13)), k - 13) ELSE BMulSmall(a, Pow2(k))

RECURSIVE BDivSmallFrom(_, _, _, _)
BDivSmallFrom(a, d, i, rem) ==
    IF i = 0 THEN <<>>
    ELSE BDivSmallFrom(a, d, i - 1, (rem * 10000 + a[i]) % d)
           \o <<(rem * 10000 + a[i]) \div d>>

\* the integer part of a / d for 0 < d < 10000
BDivSmall(a, d) == BNorm(BDivSmallFrom(a, d, Len(a), 0))

\* the integer part of a / 2^k, thirteen bits at a time
RECURSIVE BShr(_, _)
BShr(a, k) ==
    IF k > 13 THEN BShr(BDivSmall(a, Pow2(13)), k - 13) ELSE BDivSmall(a, Pow2(k))

\* The number of binary digits of a
RECURSIVE BitLen(_)
BitLen(a) ==
    IF a = <<>> THEN 0
    ELSE IF Len(a) > 1 THEN 13 + BitLen(BDivSmall(a, Pow2(13)))
    ELSE 1 + BitLen(BNat(a[1] \div 2))

\* The largest d in lo..hi with b * d <= r (b * lo <= r)
RECURSIVE QuotientDigit(_, _, _, _)
QuotientDigit(r, b, lo, hi) ==
    IF lo = hi THEN lo
    ELSE IF BCmp(BMulSmall(b, (lo + hi + 1) \div 2), r) <= 0
         THEN QuotientDigit(r, b, (lo + hi + 1) \div 2, hi)
         ELSE QuotientDigit(r, b, lo, ((lo + hi + 1) \div 2) - 1)

\* Long division of the limbs i..1 of a by b, rem carried in from above:
\* <<quotient, remainder>>
RECURSIVE BDivFrom(_, _, _, _, _)
RECURSIVE BDivDigit(_, _, _, _, _, _)
BDivFrom(a, b, i, q, rem) ==
    IF i = 0 THEN <<BNorm(q), rem>>
    ELSE BDivDigit(a, b, i, q, BNorm(<<a[i]>> \o rem),
                   QuotientDigit(BNorm(<<a[i]>> \o rem), b, 0, 9999))

BDivDigit(a, b, i, q, r, d) ==
    IF d = 0 THEN BDivFrom(a, b, i - 1, <<0>> \o q, r)
    ELSE BDivFrom(a, b, i - 1, <<d>> \o q, BSub(r, BMulSmall(b, d)))

\* <<integer part of a / b, remainder>> for b > 0
BDivMod(a, b) == BDivFrom(a, b, Len(a), <<>>, <<>>)

TwoTo52 == <<496, 2737, 5996, 4503>>

TwoTo53 == <<992, 5474, 1992, 9007>>

\* A mantissa that rounding carried up to 2^53 is 2^52 one exponent higher
Renormalised(m, e) ==
    IF m = TwoTo53 THEN [m |-> TwoTo52, e |-> e + 1] ELSE [m |-> m, e |-> e]

\* m0 is a quotient of 55 or 56 bits, k the number of bits beyond 53 and
\* sticky tells that the division left a remainder: the k bits are rounded
\* off to nearest, ties to the even mantissa
RoundBits(m0, sticky, k, e) ==
    IF \/ m0[1] % Pow2(k) > Pow2(k - 1)
       \/ /\ m0[1] % Pow2(k) = Pow2(k - 1)
          /\ (sticky \/ (m0[1] \div Pow2(k)) % 2 = 1)
    THEN Renormalised(BAdd(BDivSmall(m0, Pow2(k)), <<1>>), e + k)
    ELSE [m |-> BDivSmall(m0, Pow2(k)), e |-> e + k]

RoundQuotient(dv, e) == RoundBits(dv[1], dv[2] # <<>>, BitLen(dv[1]) - 53, e)

\* p / q scaled by 2^(-e) has a quotient of 55 or 56 bits
RoundScaled(p, q, e) ==
    RoundQuotient(BDivMod(IF e < 0 THEN BShl(p, 0 - e) ELSE p,
                          IF e > 0 THEN BShl(q, e) ELSE q), e)

\* The double nearest p / q (p, q > 0), ties to the even mantissa
Round53(p, q) == RoundScaled(p, q, BitLen(p) - BitLen(q) - 55)

\* The double a decimal text denotes
ToDouble(x) == Round53(BNat(x.m), BNat(Pow10(x.e)))

\* The double r with k added to its exponent
Scaled(r, k) == [m |-> r.m, e |-> r.e + k]

\* x * y in double arithmetic
DMul(x, y) == Scaled(Round53(BMul(x.m, y.m), <<1>>), x.e + y.e)

\* x / y in double arithmetic
DDiv(x, y) == Scaled(Round53(x.m, y.m), x.e - y.e)

\* x < k for a double x and a natural k
DLess(x, k) ==
    IF x.e >= 0 THEN BCmp(BShl(x.m, x.e), BNat(k)) < 0
    ELSE BCmp(x.m, BShl(BNat(k), 0 - x.e)) < 0

\* The decimal text of a natural h of hundredths, two fractional digits
Hundredths(h) ==
    NatToString(h \div 100) \o <<".">>
        \o <<Digits[((h % 100) \div 10) + 1], Digits[(h % 10) + 1]>>

\* toFixed(2) that cuts the digits after the second instead of rounding
ToFixed2Truncating(x) ==
    Hundredths(BInt(IF x.e >= 0 THEN BMulSmall(BShl(x.m, x.e), 100)
                    ELSE BShr(BMulSmall(x.m, 100), 0 - x.e)))

\* Number.prototype.toFixed(2) of a positive double: the integer n with
\* n / 100 nearest its exact value, the larger one on a tie
ToFixed2(x) ==
    Hundredths(BInt(IF x.e >= 0 THEN BMulSmall(BShl(x.m, x.e), 100)
                    ELSE BShr(BAdd(BMulSmall(x.m, 200), BShl(<<1>>, 0 - x.e)),
                              1 - x.e)))

\* Number.prototype.toString of a decimal (what JSON.stringify writes for a
\* number field)
NumberToString(x) ==
    LET mag == IF x.m < 0 THEN 0 - x.m ELSE x.m
        ip  == NatToString(mag \div Pow10(x.e))
        fd  == NatToString(mag % Pow10(x.e))
        pad == [i \in 1..(x.e - Len(fd)) |-> "0"]
    IN  (IF x.m < 0 THEN <<"-">> ELSE <<>>)
          \o ip \o (IF x.e > 0 THEN <<".">> \o pad \o fd ELSE <<>>)

\* The numeric value of a string of digits ('b.id - a.id' coerces each id)
ToNumber(s) == DigitsVal(s)

\* Date.prototype.toISOString: a fixed-width rendering, most significant
\* field first, of the instant t (the model's instants are small naturals)
ToISOString(t) ==
    LET ds == NatToString(t)
    IN  [i \in 1..(4 - Len(ds)) |-> "0"] \o ds

\* new Date(text) used as a number: the instant the text was rendered from
DateParse(s) == DigitsVal(s)

-----------------------------------------------------------------------------
(* Bounds of the model *)

\* calculateIMC is not started once this many records are stored or on their way
MaxRecords == 3

\* storage requests outstanding at one time
MaxInFlight == 2

\* the clock reads FirstInstant at start and stops advancing at LastInstant
FirstInstant == 9

LastInstant == 11

\* the longest series of records of one user held for the chart
MaxSeries == 10

\* the forms saved one after the other on the Home screen
MaxForms == 2

-----------------------------------------------------------------------------
(* State *)

VARIABLES
    name, gender, weight, height, age, result,   \* HomeScreen (App.js 54-59)
    records,                                     \* Registros (registro.jsx 24)
    alerts,                                      \* dialogs shown by Alert.alert
    screen, stackTop,                            \* the focused screen, the top of the Historial stack
    userName, userRecords,                       \* DetalleGrafica (route param, state)
    stored,                                      \* AsyncStorage key 'imcRecords'
    tasks,                                       \* storage requests in flight, with their awaiting handler
    now                                          \* the device clock

homeVars == <<name, gender, weight, height, age, result>>

vars == <<name, gender, weight, height, age, result, records, alerts, screen,
          stackTop, userName, userRecords, stored, tasks, now>>

\* The key is absent (getItem gives null)
Absent == [present |-> FALSE, val |-> <<>>, json |-> TRUE]

\* The key holds the JSON text of an array
Present(doc) == [present |-> TRUE, val |-> doc, json |-> TRUE]

\* The key holds a text that is no JSON: JSON.parse throws on it
Unparsable == [present |-> TRUE, val |-> <<>>, json |-> FALSE]

\* A record in memory: the numeric fields are numbers
NoRecord ==
    [id |-> <<>>, name |-> <<>>, gender |-> "", age |-> NaN, weight |-> NaN,
     height |-> NaN, imc |-> <<>>, classification |-> "", date |-> <<>>]

\* JSON.stringify of one record: strings as they are, numbers by toString
JsonObject(r) ==
    [id |-> r.id, name |-> r.name, gender |-> r.gender,
     age |-> NumberToString(r.age), weight |-> NumberToString(r.weight),
     height |-> NumberToString(r.height), imc |-> r.imc,
     classification |-> r.classification, date |-> r.date]

\* JSON.stringify of the array of records
JsonStringify(rs) == [i \in 1..Len(rs) |-> JsonObject(rs[i])]

\* A parse that reads the numbers back but loses the classification
JsonRecordLosingClassification(o) ==
    [id |-> o.id, name |-> o.name, gender |-> o.gender,
     age |-> ParseFloat(o.age), weight |-> ParseFloat(o.weight),
     height |-> ParseFloat(o.height), imc |-> o.imc,
     classification |-> "", date |-> o.date]

\* JSON.parse of one object: the number literals are read back
JsonRecord(o) ==
    [id |-> o.id, name |-> o.name, gender |-> o.gender,
     age |-> ParseFloat(o.age), weight |-> ParseFloat(o.weight),
     height |-> ParseFloat(o.height), imc |-> o.imc,
     classification |-> o.classification, date |-> o.date]

\* JSON.parse of the stored array
JsonParse(doc) == [i \in 1..Len(doc) |-> JsonRecord(doc[i])]

-----------------------------------------------------------------------------
(* Storage requests *)

\* One awaited AsyncStorage call and the handler that awaits it
Task(fn, op, text, rec, recs) ==
    [fn |-> fn, op |-> op, st |-> "pending", text |-> text, rec |-> rec,
     recs |-> recs, got |-> Absent, live |-> TRUE]

Without(seq, i) == SubSeq(seq, 1, i - 1) \o SubSeq(seq, i + 1, Len(seq))

CanStart == Len(tasks) < MaxInFlight

\* The try block of the handler awaiting t was left for its catch block: the
\* awaited promise was rejected, or JSON.parse threw on the text it gave
Threw(t) == t.st = "rejected" \/ (t.got.present /\ ~t.got.json)

\* AsyncStorage performs request i: getItem reads the key, setItem replaces
\* it, removeItem removes it; the promise is then resolved
StorageResolve(i) ==
    /\ i \in 1..Len(tasks)
    /\ tasks[i].st = "pending"
    /\ stored' = CASE tasks[i].op = "setItem"    -> Present(JsonStringify(tasks[i].recs))
                   [] tasks[i].op = "removeItem" -> Absent
                   [] OTHER                      -> stored
    /\ tasks' = [tasks EXCEPT ![i].st = "resolved",
                              ![i].got = IF tasks[i].op = "getItem" THEN stored ELSE Absent]
    /\ UNCHANGED <<homeVars, records, alerts, screen, stackTop, userName, userRecords, now>>

\* AsyncStorage fails request i: the key is untouched and the promise rejected
StorageReject(i) ==
    /\ i \in 1..Len(tasks)
    /\ tasks[i].st = "pending"
    /\ tasks' = [tasks EXCEPT ![i].st = "rejected"]
    /\ UNCHANGED <<homeVars, records, alerts, screen, stackTop, userName, userRecords, stored, now>>

\* The device clock advances
Tick ==
    /\ now < LastInstant
    /\ now' = now + 1
    /\ UNCHANGED <<homeVars, records, alerts, screen, stackTop, userName, userRecords, stored, tasks>>

\* No dialog is open: the screens take input
Interactive == alerts = <<>>

-----------------------------------------------------------------------------
(* HomeScreen *)

\* const records = stored ? JSON.parse(stored) : []
ParseOrEmpty(got) == IF got.present /\ got.json THEN JsonParse(got.val) ELSE <<>>

\* A search that keeps the last match instead of stopping at the first
FindLastExisting(rs, enteredName) ==
    LET hits == {i \in 1..Len(rs) :
                    ToLowerCase(rs[i].name) = Trim(ToLowerCase(enteredName))}
    IN  IF hits = {} THEN 0 ELSE CHOOSE i \in hits : \A j \in hits : i >= j

\* records.find(r => r.name.toLowerCase() === enteredName.toLowerCase().trim())
FindExisting(rs, enteredName) ==
    LET hits == {i \in 1..Len(rs) :
                    ToLowerCase(rs[i].name) = Trim(ToLowerCase(enteredName))}
    IN  IF hits = {} THEN 0 ELSE CHOOSE i \in hits : \A j \in hits : i <= j

\* handleNameChange(text): setName, then checkExistingUser(text) up to its await
HandleNameChange(text) ==
    /\ screen = "Inicio" /\ Interactive
    /\ name' = text
    /\ IF Trim(text) = <<>>
       THEN tasks' = tasks
       ELSE /\ CanStart
            /\ tasks' = Append(tasks, Task("checkExistingUser", "getItem", text, NoRecord, <<>>))
    /\ UNCHANGED <<gender, weight, height, age, result, records, alerts, screen,
                   stackTop, userName, userRecords, stored, now>>

\* checkExistingUser after its await: the first match sets the gender
CheckExistingUserDone(i) ==
    /\ i \in 1..Len(tasks)
    /\ tasks[i].fn = "checkExistingUser" /\ tasks[i].st # "pending"
    /\ tasks' = Without(tasks, i)
    /\ LET rs == ParseOrEmpty(tasks[i].got)
           k  == FindExisting(rs, tasks[i].text)
       IN  gender' = IF ~Threw(tasks[i]) /\ k # 0 THEN rs[k].gender ELSE gender
    /\ UNCHANGED <<name, weight, height, age, result, records, alerts, screen,
                   stackTop, userName, userRecords, stored, now>>

\* The gender buttons: onPress={() => setGender(g)}
SetGender(g) ==
    /\ screen = "Inicio" /\ Interactive
    /\ gender' = g
    /\ UNCHANGED <<name, weight, height, age, result, records, alerts, screen,
                   stackTop, userName, userRecords, stored, tasks, now>>

\* text.replace(/[^0-9.]/g, '')
ValidText(text) == SelectSeq(text, LAMBDA c : IsDigit(c) \/ c = ".")

DotCount(text) == Len(SelectSeq(text, LAMBDA c : c = "."))

\* handleChangeNum(setter)(text): what the field holds afterwards
ChangeNum(old, text) == IF DotCount(ValidText(text)) > 1 THEN old ELSE ValidText(text)

HandleChangeWeight(text) ==
    /\ screen = "Inicio" /\ Interactive
    /\ weight' = ChangeNum(weight, text)
    /\ UNCHANGED <<name, gender, height, age, result, records, alerts, screen,
                   stackTop, userName, userRecords, stored, tasks, now>>

HandleChangeHeight(text) ==
    /\ screen = "Inicio" /\ Interactive
    /\ height' = ChangeNum(height, text)
    /\ UNCHANGED <<name, gender, weight, age, result, records, alerts, screen,
                   stackTop, userName, userRecords, stored, tasks, now>>

HandleChangeAge(text) ==
    /\ screen = "Inicio" /\ Interactive
    /\ age' = ChangeNum(age, text)
    /\ UNCHANGED <<name, gender, weight, height, result, records, alerts, screen,
                   stackTop, userName, userRecords, stored, tasks, now>>

\* parseNumber: null for NaN
ParseNumber(text) == ParseFloat(text)

IsNull(x) == x.nan

\* const heightInMeters = h / 100
HeightInMeters(h) == DDiv(ToDouble(h), ToDouble(Num(100, 0)))

\* heightInMeters * heightInMeters
Squared(x) == DMul(x, x)

\* const imc = w / (heightInMeters * heightInMeters)
Imc(w, h) == DDiv(ToDouble(w), Squared(HeightInMeters(h)))

\* The gender-specific cascade of comparisons
Classify(g, imc) ==
    IF g = "Hombre"
    THEN IF DLess(imc, 20) THEN "Bajo peso"
         ELSE IF DLess(imc, 25) THEN "Peso normal"
         ELSE IF DLess(imc, 30) THEN "Sobrepeso"
         ELSE "Obesidad"
    ELSE IF DLess(imc, 18) THEN "Bajo peso"
         ELSE IF DLess(imc, 24) THEN "Peso normal"
         ELSE IF DLess(imc, 29) THEN "Sobrepeso"
         ELSE "Obesidad"

\* The text shown in the result box
Message(kind, n, imc, c) == [kind |-> kind, name |-> n, imc |-> imc, classification |-> c]

\* The record literal of calculateIMC: name n, gender g, the parsed numbers,
\* the computed imc and the clock reading t for id and date
RecordLiteral(n, g, w, h, a, imc, t) ==
    [id |-> NatToString(t), name |-> Trim(n), gender |-> g, age |-> a,
     weight |-> w, height |-> h, imc |-> ToFixed2(imc),
     classification |-> Classify(g, imc), date |-> ToISOString(t)]

\* The computation of calculateIMC on valid input
MakeRecord(n, g, w, h, a, t) == RecordLiteral(n, g, w, h, a, Imc(w, h), t)

\* const newResult = { id: Date.now().toString(), name: name.trim(), ... }
NewResult(w, h, a) == MakeRecord(name, gender, w, h, a, now)

\* The validations with the age left out of the positivity test
ValidateForgetsAge(n, w, h, a) ==
    IF Trim(n) = <<>> THEN "missing name"
    ELSE IF IsNull(w) \/ IsNull(h) \/ IsNull(a) THEN "invalid values"
    ELSE IF w.m <= 0 \/ h.m <= 0 THEN "values must be positive"
    ELSE "result"

\* The validations with only the weight tested for a number
ValidateNumberOfWeightOnly(n, w, h, a) ==
    IF Trim(n) = <<>> THEN "missing name"
    ELSE IF IsNull(w) THEN "invalid values"
    ELSE IF w.m <= 0 \/ h.m <= 0 \/ a.m <= 0 THEN "values must be positive"
    ELSE "result"

\* The validations with the name tested without trimming it
ValidateUntrimmedName(n, w, h, a) ==
    IF n = <<>> THEN "missing name"
    ELSE IF IsNull(w) \/ IsNull(h) \/ IsNull(a) THEN "invalid values"
    ELSE IF w.m <= 0 \/ h.m <= 0 \/ a.m <= 0 THEN "values must be positive"
    ELSE "result"

\* The three validations of calculateIMC, in the order of the code
Validate(n, w, h, a) ==
    IF Trim(n) = <<>> THEN "missing name"
    ELSE IF IsNull(w) \/ IsNull(h) \/ IsNull(a) THEN "invalid values"
    ELSE IF w.m <= 0 \/ h.m <= 0 \/ a.m <= 0 THEN "values must be positive"
    ELSE "result"

\* Records stored or being saved
Committed ==
    Len(stored.val) + Cardinality({i \in 1..Len(tasks) : tasks[i].fn = "calculateIMC"})

\* calculateIMC on valid input, from setResult on: the result text, the
\* cleared form, and the getItem of the save
ShowAndSave(newResult) ==
    /\ result' = Message("result", newResult.name, newResult.imc, newResult.classification)
    /\ name' = <<>> /\ weight' = <<>> /\ height' = <<>> /\ age' = <<>>
    /\ tasks' = Append(tasks, Task("calculateIMC", "getItem", <<>>, newResult, <<>>))

\* An outcome that clears the numeric fields along with the error text
ValidatedClearing(v, w, h, a) ==
    IF v # "result"
    THEN /\ result' = Message(v, <<>>, <<>>, "")
         /\ weight' = <<>> /\ height' = <<>> /\ age' = <<>>
         /\ UNCHANGED <<name, tasks>>
    ELSE /\ CanStart /\ Committed < MaxRecords
         /\ ShowAndSave(NewResult(w, h, a))

\* The outcome of the validations: an error text, or the computation
Validated(v, w, h, a) ==
    IF v # "result"
    THEN /\ result' = Message(v, <<>>, <<>>, "")
         /\ UNCHANGED <<name, weight, height, age, tasks>>
    ELSE /\ CanStart /\ Committed < MaxRecords
         /\ ShowAndSave(NewResult(w, h, a))

\* calculateIMC up to its first await
CalculateIMC ==
    /\ screen = "Inicio" /\ Interactive
    /\ Validated(Validate(name, ParseNumber(weight), ParseNumber(height), ParseNumber(age)),
                 ParseNumber(weight), ParseNumber(height), ParseNumber(age))
    /\ UNCHANGED <<gender, records, alerts, screen, stackTop, userName, userRecords,
                   stored, now>>

\* calculateIMC after getItem: push the record and start setItem; a rejected
\* getItem or a text that does not parse goes to the catch block
CalculateIMCRead(i) ==
    /\ i \in 1..Len(tasks)
    /\ tasks[i].fn = "calculateIMC" /\ tasks[i].op = "getItem" /\ tasks[i].st # "pending"
    /\ tasks' = IF ~Threw(tasks[i])
                THEN [tasks EXCEPT ![i] =
                        Task("calculateIMC", "setItem", <<>>, tasks[i].rec,
                             Append(ParseOrEmpty(tasks[i].got), tasks[i].rec))]
                ELSE Without(tasks, i)
    /\ UNCHANGED <<homeVars, records, alerts, screen, stackTop, userName, userRecords,
                   stored, now>>

\* A save that reports a rejected setItem in a dialog
CalculateIMCSavedReporting(i) ==
    /\ i \in 1..Len(tasks)
    /\ tasks[i].fn = "calculateIMC" /\ tasks[i].op = "setItem" /\ tasks[i].st # "pending"
    /\ tasks' = Without(tasks, i)
    /\ alerts' = IF tasks[i].st = "rejected" THEN Append(alerts, "Error: guardar") ELSE alerts
    /\ UNCHANGED <<homeVars, records, screen, stackTop, userName, userRecords,
                   stored, now>>

\* calculateIMC after setItem: nothing more is done, a rejection is only logged
CalculateIMCSaved(i) ==
    /\ i \in 1..Len(tasks)
    /\ tasks[i].fn = "calculateIMC" /\ tasks[i].op = "setItem" /\ tasks[i].st # "pending"
    /\ tasks' = Without(tasks, i)
    /\ UNCHANGED <<homeVars, records, alerts, screen, stackTop, userName, userRecords,
                   stored, now>>

-----------------------------------------------------------------------------
(* Registros *)

\* The insertion of a sort that compares the ids as texts of digits, place
\* by place, as a comparator without the subtraction would
RECURSIVE TextLess(_, _)
TextLess(a, b) ==
    IF b = <<>> THEN FALSE
    ELSE IF a = <<>> THEN TRUE
    ELSE IF Head(a) # Head(b) THEN DigitVal(Head(a)) < DigitVal(Head(b))
    ELSE TextLess(Tail(a), Tail(b))

RECURSIVE InsertByIdText(_, _)
InsertByIdText(x, s) ==
    IF s = <<>> THEN <<x>>
    ELSE IF TextLess(Head(s).id, x.id)
         THEN <<x>> \o s
         ELSE <<Head(s)>> \o InsertByIdText(x, Tail(s))

\* Array.prototype.sort((a, b) => b.id - a.id): a stable sort, so x goes
\* after every element the comparator does not put behind it
RECURSIVE InsertById(_, _)
InsertById(x, s) ==
    IF s = <<>> THEN <<x>>
    ELSE IF ToNumber(x.id) - ToNumber(Head(s).id) > 0
         THEN <<x>> \o s
         ELSE <<Head(s)>> \o InsertById(x, Tail(s))

RECURSIVE SortByIdDesc(_)
SortByIdDesc(s) ==
    IF s = <<>> THEN <<>>
    ELSE InsertById(s[Len(s)], SortByIdDesc(SubSeq(s, 1, Len(s) - 1)))

\* useFocusEffect of Registros: loadRecords up to its await
StartLoadRecords == Append(tasks, Task("loadRecords", "getItem", <<>>, NoRecord, <<>>))

\* loadRecords after its await; a rejected getItem or a text that does not
\* parse is only logged
LoadRecordsDone(i) ==
    /\ i \in 1..Len(tasks)
    /\ tasks[i].fn = "loadRecords" /\ tasks[i].st # "pending"
    /\ tasks' = Without(tasks, i)
    /\ records' = IF Threw(tasks[i]) THEN records
                  ELSE IF tasks[i].got.present
                       THEN SortByIdDesc(JsonParse(tasks[i].got.val))
                       ELSE <<>>
    /\ UNCHANGED <<homeVars, alerts, screen, stackTop, userName, userRecords, stored, now>>

\* records.filter(record => record.id !== id)
FilterOut(rs, id) == SelectSeq(rs, LAMBDA r : r.id # id)

\* The trash button of row k: deleteRecord(item.id) up to its await
DeleteRecord(k) ==
    /\ screen = "Registros" /\ Interactive
    /\ k \in 1..Len(records)
    /\ CanStart
    /\ tasks' = Append(tasks, Task("deleteRecord", "setItem", records[k].id, NoRecord,
                                   FilterOut(records, records[k].id)))
    /\ UNCHANGED <<homeVars, records, alerts, screen, stackTop, userName, userRecords,
                   stored, now>>

\* deleteRecord after its await: setRecords(newRecords), or the error dialog
DeleteRecordDone(i) ==
    /\ i \in 1..Len(tasks)
    /\ tasks[i].fn = "deleteRecord" /\ tasks[i].st # "pending"
    /\ tasks' = Without(tasks, i)
    /\ IF tasks[i].st = "resolved"
       THEN records' = tasks[i].recs /\ alerts' = alerts
       ELSE records' = records /\ alerts' = Append(alerts, "Error: eliminar")
    /\ UNCHANGED <<homeVars, screen, stackTop, userName, userRecords, stored, now>>

\* The 'Borrar Todos' button (rendered when the list is not empty):
\* deleteAllRecords opens the confirmation dialog
DeleteAllRecords ==
    /\ screen = "Registros" /\ Interactive
    /\ Len(records) > 0
    /\ alerts' = Append(alerts, "Confirmar")
    /\ UNCHANGED <<homeVars, records, screen, stackTop, userName, userRecords,
                   stored, tasks, now>>

\* A 'Cancelar' button that removes the key all the same
CancelDeleteAllRemoving ==
    /\ alerts # <<>> /\ alerts[Len(alerts)] = "Confirmar"
    /\ CanStart
    /\ alerts' = SubSeq(alerts, 1, Len(alerts) - 1)
    /\ tasks' = Append(tasks, Task("deleteAllRecords", "removeItem", <<>>, NoRecord, <<>>))
    /\ UNCHANGED <<homeVars, records, screen, stackTop, userName, userRecords, stored, now>>

\* 'Cancelar', or a touch outside the cancelable dialog
CancelDeleteAll ==
    /\ alerts # <<>> /\ alerts[Len(alerts)] = "Confirmar"
    /\ alerts' = SubSeq(alerts, 1, Len(alerts) - 1)
    /\ UNCHANGED <<homeVars, records, screen, stackTop, userName, userRecords,
                   stored, tasks, now>>

\* 'Eliminar todo': the onPress handler up to its await
ConfirmDeleteAll ==
    /\ alerts # <<>> /\ alerts[Len(alerts)] = "Confirmar"
    /\ CanStart
    /\ alerts' = SubSeq(alerts, 1, Len(alerts) - 1)
    /\ tasks' = Append(tasks, Task("deleteAllRecords", "removeItem", <<>>, NoRecord, <<>>))
    /\ UNCHANGED <<homeVars, records, screen, stackTop, userName, userRecords, stored, now>>

\* An onPress handler that empties the list and announces success whatever
\* removeItem answered
DeleteAllDoneAnnouncing(i) ==
    /\ i \in 1..Len(tasks)
    /\ tasks[i].fn = "deleteAllRecords" /\ tasks[i].st # "pending"
    /\ tasks' = Without(tasks, i)
    /\ records' = <<>> /\ alerts' = Append(alerts, "Exito")
    /\ UNCHANGED <<homeVars, screen, stackTop, userName, userRecords, stored, now>>

\* The onPress handler after its await: the list is emptied and success
\* announced, or the error dialog is shown
DeleteAllDone(i) ==
    /\ i \in 1..Len(tasks)
    /\ tasks[i].fn = "deleteAllRecords" /\ tasks[i].st # "pending"
    /\ tasks' = Without(tasks, i)
    /\ IF tasks[i].st = "resolved"
       THEN records' = <<>> /\ alerts' = Append(alerts, "Exito")
       ELSE records' = records /\ alerts' = Append(alerts, "Error: eliminar todos")
    /\ UNCHANGED <<homeVars, screen, stackTop, userName, userRecords, stored, now>>

\* The button of a dialog that only informs
DismissAlert ==
    /\ alerts # <<>> /\ alerts[Len(alerts)] # "Confirmar"
    /\ alerts' = SubSeq(alerts, 1, Len(alerts) - 1)
    /\ UNCHANGED <<homeVars, records, screen, stackTop, userName, userRecords,
                   stored, tasks, now>>

-----------------------------------------------------------------------------
(* DetalleGrafica *)

\* Array.prototype.sort((a, b) => new Date(a.date) - new Date(b.date)), stable
RECURSIVE InsertByDate(_, _)
InsertByDate(x, s) ==
    IF s = <<>> THEN <<x>>
    ELSE IF DateParse(x.date) - DateParse(Head(s).date) < 0
         THEN <<x>> \o s
         ELSE <<Head(s)>> \o InsertByDate(x, Tail(s))

RECURSIVE SortByDateAsc(_)
SortByDateAsc(s) ==
    IF s = <<>> THEN <<>>
    ELSE InsertByDate(s[Len(s)], SortByDateAsc(SubSeq(s, 1, Len(s) - 1)))

\* A filter that ignores the case of the names
FilterByNameAnyCase(rs, n) ==
    SelectSeq(rs, LAMBDA r : ToLowerCase(r.name) = ToLowerCase(n))

\* allRecords.filter(record => record.name === userName)
FilterByName(rs, n) == SelectSeq(rs, LAMBDA r : r.name = n)

\* useFocusEffect of DetalleGrafica: loadUserRecords up to its await; the
\* closure holds the userName of the render that started it
StartLoadUserRecords(n) == Append(tasks, Task("loadUserRecords", "getItem", n, NoRecord, <<>>))

\* A loadUserRecords whose result reaches the list on the screen even when
\* the screen that started it was popped
LoadUserRecordsDoneOnAnyScreen(i) ==
    /\ i \in 1..Len(tasks)
    /\ tasks[i].fn = "loadUserRecords" /\ tasks[i].st # "pending"
    /\ tasks' = Without(tasks, i)
    /\ userRecords' =
         IF Threw(tasks[i]) THEN userRecords
         ELSE IF tasks[i].got.present
              THEN SortByDateAsc(FilterByName(JsonParse(tasks[i].got.val), tasks[i].text))
              ELSE <<>>
    /\ UNCHANGED <<homeVars, records, alerts, screen, stackTop, userName, stored, now>>

\* loadUserRecords after its await; a rejected getItem or a text that does
\* not parse is only logged, and a screen that was popped meanwhile has no
\* state left to set
LoadUserRecordsDone(i) ==
    /\ i \in 1..Len(tasks)
    /\ tasks[i].fn = "loadUserRecords" /\ tasks[i].st # "pending"
    /\ tasks' = Without(tasks, i)
    /\ userRecords' =
         IF Threw(tasks[i]) \/ ~tasks[i].live THEN userRecords
         ELSE IF tasks[i].got.present
              THEN SortByDateAsc(FilterByName(JsonParse(tasks[i].got.val), tasks[i].text))
              ELSE <<>>
    /\ UNCHANGED <<homeVars, records, alerts, screen, stackTop, userName, stored, now>>

\* the 7 of userRecords.slice(-7)
WindowSize == 7

\* A window taken from the start of the list
SliceFromStart(s, n) == SubSeq(s, 1, IF Len(s) > n THEN n ELSE Len(s))

\* Array.prototype.slice(-n)
Slice(s, n) == SubSeq(s, (IF Len(s) > n THEN Len(s) - n ELSE 0) + 1, Len(s))

\* toLocaleDateString('es-ES', {month, day}) of new Date(date): the label is
\* a rendering of the parsed instant
DateLabel(date) == <<"d/m", DateParse(date)>>

\* getChartData
GetChartData(urs, n) ==
    IF Len(urs) = 0
    THEN [labels |-> <<"Sin datos">>, data |-> <<NaN>>, legend |-> <<>>]
    ELSE LET recordsToShow == Slice(urs, WindowSize)
         IN  [labels |-> [i \in 1..Len(recordsToShow) |-> DateLabel(recordsToShow[i].date)],
              data   |-> [i \in 1..Len(recordsToShow) |-> ParseFloat(recordsToShow[i].imc)],
              legend |-> n]

-----------------------------------------------------------------------------
(* Navigation *)

\* The drawer entry 'Historial': the screen on top of its stack gains focus
\* and its focus effect runs
OpenHistorial ==
    /\ screen = "Inicio" /\ Interactive
    /\ CanStart
    /\ screen' = stackTop
    /\ tasks' = IF stackTop = "Registros" THEN StartLoadRecords
                ELSE StartLoadUserRecords(userName)
    /\ UNCHANGED <<homeVars, records, alerts, stackTop, userName, userRecords, stored, now>>

\* The drawer entry 'Inicio'
OpenInicio ==
    /\ screen # "Inicio" /\ Interactive
    /\ screen' = "Inicio"
    /\ UNCHANGED <<homeVars, records, alerts, stackTop, userName, userRecords, stored,
                   tasks, now>>

\* The chart button of row k: navigation.navigate('DetalleGrafica', {userName:
\* item.name}) mounts the screen with empty state and focuses it
OpenDetalleGrafica(k) ==
    /\ screen = "Registros" /\ Interactive
    /\ k \in 1..Len(records)
    /\ CanStart
    /\ screen' = "DetalleGrafica" /\ stackTop' = "DetalleGrafica"
    /\ userName' = records[k].name
    /\ userRecords' = <<>>
    /\ tasks' = StartLoadUserRecords(records[k].name)
    /\ UNCHANGED <<homeVars, records, alerts, stored, now>>

\* Back from DetalleGrafica: the screen is popped and unmounted, Registros
\* gains focus and reloads
GoBack ==
    /\ screen = "DetalleGrafica" /\ Interactive
    /\ CanStart
    /\ screen' = "Registros" /\ stackTop' = "Registros"
    /\ userName' = <<>>
    /\ userRecords' = <<>>
    /\ tasks' = Append([i \in 1..Len(tasks) |->
                          IF tasks[i].fn = "loadUserRecords"
                          THEN [tasks[i] EXCEPT !.live = FALSE] ELSE tasks[i]],
                       Task("loadRecords", "getItem", <<>>, NoRecord, <<>>))
    /\ UNCHANGED <<homeVars, records, alerts, stored, now>>

-----------------------------------------------------------------------------
(* The application *)

Hombre == "Hombre"

Mujer == "Mujer"

Genders == {Hombre, Mujer}

\* What the user types in the form
NameTexts == {<<"A", "n", "a">>, <<"A", "N", "A", " ">>}

WeightTexts == {<<"7", "0">>}

HeightTexts == {<<"1", "7", "5">>}

AgeTexts == {<<"3", "0">>}

Init ==
    /\ name = <<>>
    /\ gender = "Hombre"
    /\ weight = <<>>
    /\ height = <<>>
    /\ age = <<>>
    /\ result = Message("IMC", <<>>, <<>>, "")
    /\ records = <<>>
    /\ alerts = <<>>
    /\ screen = "Inicio"
    /\ stackTop = "Registros"
    /\ userName = <<>>
    /\ userRecords = <<>>
    /\ stored = Absent
    /\ tasks = <<>>
    /\ now = FirstInstant

Next ==
    \/ Tick
    \/ \E t \in NameTexts : HandleNameChange(t)
    \/ \E g \in Genders : SetGender(g)
    \/ \E t \in WeightTexts : HandleChangeWeight(t)
    \/ \E t \in HeightTexts : HandleChangeHeight(t)
    \/ \E t \in AgeTexts : HandleChangeAge(t)
    \/ CalculateIMC
    \/ OpenHistorial
    \/ OpenInicio
    \/ \E k \in 1..MaxRecords : DeleteRecord(k)
    \/ \E k \in 1..MaxRecords : OpenDetalleGrafica(k)
    \/ GoBack
    \/ DeleteAllRecords
    \/ CancelDeleteAll
    \/ ConfirmDeleteAll
    \/ DismissAlert
    \/ \E i \in 1..MaxInFlight :
          \/ StorageResolve(i)
          \/ StorageReject(i)
          \/ CheckExistingUserDone(i)
          \/ CalculateIMCRead(i)
          \/ CalculateIMCSaved(i)
          \/ LoadRecordsDone(i)
          \/ DeleteRecordDone(i)
          \/ DeleteAllDone(i)
          \/ LoadUserRecordsDone(i)

Spec == Init /\ [][Next]_vars
-----------------------------------------------------------------------------
(* The Home form alone: calculateIMC pressed on a filled form *)

\* Texts typed into the numeric fields (each goes through handleChangeNum)
TypedWeights ==
    {<<>>, <<".">>, <<"0">>, <<"-", "5">>, <<"1", ".", "2", ".", "3">>,
     <<"5", "0">>, <<"5", "1", ".", "2">>, <<"6", "4">>, <<"7", "0">>,
     <<"7", "2">>, <<"8", "0">>, <<"9", "6">>,
     <<"1", "0", "0">>, <<"1", "1", "6">>, <<"1", "2", "0">>,
     <<"7", "9", ".", "9", "9">>}

TypedHeights == {<<>>, <<"0">>, <<"1", "6", "0">>, <<"1", "7", "5">>, <<"2", "0", "0">>}

TypedAges == {<<>>, <<"0">>, <<"3", "0">>}

TypedNames == {<<>>, <<" ">>, <<" ", "A", "n", "a", " ">>}

\* A record saved earlier
EarlierRecord ==
    MakeRecord(<<"B", "o">>, Hombre, ParseNumber(<<"8", "0">>),
               ParseNumber(<<"1", "8", "0">>), ParseNumber(<<"4", "0">>), FirstInstant)

InitCalc ==
    /\ name \in TypedNames
    /\ gender \in Genders
    /\ weight \in {ChangeNum(<<>>, t) : t \in TypedWeights}
    /\ height \in {ChangeNum(<<>>, t) : t \in TypedHeights}
    /\ age \in {ChangeNum(<<>>, t) : t \in TypedAges}
    /\ result = Message("IMC", <<>>, <<>>, "")
    /\ records = <<>>
    /\ alerts = <<>>
    /\ screen = "Inicio"
    /\ stackTop = "Registros"
    /\ userName = <<>>
    /\ userRecords = <<>>
    /\ stored \in {Absent, Present(JsonStringify(<<EarlierRecord>>))}
    /\ tasks = <<>>
    /\ now = FirstInstant

NextCalc ==
    \/ CalculateIMC
    \/ \E i \in 1..MaxInFlight :
          \/ StorageResolve(i)
          \/ StorageReject(i)
          \/ CalculateIMCRead(i)
          \/ CalculateIMCSaved(i)

SpecCalc == InitCalc /\ [][NextCalc]_vars

-----------------------------------------------------------------------------
(* Properties of calculateIMC *)

\* The records calculateIMC has built and is saving
Built == {tasks[i].rec : i \in {j \in 1..Len(tasks) : tasks[j].fn = "calculateIMC"}}

\* weight / (height / 100)^2 < t, by cross-multiplication on the record's
\* own weight and height
Below(r, t) ==
    r.weight.m * Pow10(2 * r.height.e) * 10000
        < t * Pow10(r.weight.e) * r.height.m * r.height.m

InBand(r, lo, hi) == ~Below(r, lo) /\ Below(r, hi)

\* C2: every record built by calculateIMC carries the classification the
\* gender-specific threshold table gives for weight / (height/100)^2, the
\* lower bound of each band included and the upper bound excluded
C2_ClassificationMatchesTable ==
    \A r \in Built :
        /\ r.gender \in {"Hombre", "Mujer"}
        /\ r.gender = "Hombre" =>
             /\ Below(r, 20) => r.classification = "Bajo peso"
             /\ InBand(r, 20, 25) => r.classification = "Peso normal"
             /\ InBand(r, 25, 30) => r.classification = "Sobrepeso"
             /\ ~Below(r, 30) => r.classification = "Obesidad"
        /\ r.gender = "Mujer" =>
             /\ Below(r, 18) => r.classification = "Bajo peso"
             /\ InBand(r, 18, 24) => r.classification = "Peso normal"
             /\ InBand(r, 24, 29) => r.classification = "Sobrepeso"
             /\ ~Below(r, 29) => r.classification = "Obesidad"

\* The exact quotient of a record as a pair <<numerator, denominator>> in
\* lowest terms
Quotient(r) ==
    LET n == r.weight.m * Pow10(2 * r.height.e) * 10000
        d == Pow10(r.weight.e) * r.height.m * r.height.m
    IN  <<n \div Gcd(n, d), d \div Gcd(n, d)>>

Abs(k) == IF k < 0 THEN 0 - k ELSE k

NonPositiveForm ==
    /\ Trim(name) # <<>>
    /\ ~ParseFloat(weight).nan /\ ~ParseFloat(height).nan /\ ~ParseFloat(age).nan
    /\ \/ ParseFloat(weight).m <= 0
       \/ ParseFloat(height).m <= 0
       \/ ParseFloat(age).m <= 0

\* C4: with a name and three numbers in the form, one of them <= 0, a step
\* starts no save, leaves the stored collection as it is, and the only
\* result text it can show is 'values must be positive'
C4_NonPositiveRejected ==
    [][NonPositiveForm =>
          /\ tasks' = tasks
          /\ stored' = stored
          /\ result' # result => result'.kind = "values must be positive"]_vars

\* calculateIMC has answered a form whose age is 0 (weight and height
\* positive) with the error, nothing being saved
C4_Witness ==
    /\ NonPositiveForm
    /\ ParseFloat(age).m = 0 /\ ParseFloat(weight).m > 0 /\ ParseFloat(height).m > 0
    /\ result.kind = "values must be positive"
    /\ tasks = <<>>
    /\ stored.present

-----------------------------------------------------------------------------
(* The record list: Historial opened on a device that holds earlier records *)

\* name, gender, weight, height and age typed, saved at instant t
Saved(n, g, w, h, a, t) == MakeRecord(n, g, ParseNumber(w), ParseNumber(h), ParseNumber(a), t)

First ==
    Saved(<<"A", "n", "a">>, Mujer, <<"5", "0">>, <<"1", "6", "0">>, <<"3", "0">>,
          FirstInstant - 1)

Second ==
    Saved(<<"B", "o">>, Hombre, <<"8", "0">>, <<"1", "8", "0">>, <<"4", "0">>, FirstInstant)

Third ==
    Saved(<<"A", "N", "A">>, Hombre, <<"7", "9", ".", "9", "9">>, <<"1", "7", "5">>,
          <<"3", "0">>, FirstInstant + 1)

\* The records of earlier sessions
Earlier == <<First, Second, Third>>

\* The records of rs picked in the order ks
Picked(rs, ks) == [i \in 1..Len(ks) |-> rs[ks[i]]]

\* Collections left by earlier sessions: calculateIMC appends, deleteRecord
\* writes back the list in the order it is shown
StoredOrders == {<<>>, <<1>>, <<1, 2>>, <<1, 2, 3>>, <<2, 1, 3>>, <<3, 2, 1>>}

StoredLists ==
    {Absent} \cup {Present(Picked(JsonStringify(Earlier), ks)) : ks \in StoredOrders}

\* Collections of up to two records, the ids 9 and 10, as the record list
\* finds them
ListedOrders == {<<>>, <<2>>, <<2, 3>>, <<3, 2>>}

ListedLists ==
    {Absent} \cup {Present(Picked(JsonStringify(Earlier), ks)) : ks \in ListedOrders}

InitList ==
    /\ name = <<>>
    /\ gender = Hombre
    /\ weight = <<>>
    /\ height = <<>>
    /\ age = <<>>
    /\ result = Message("IMC", <<>>, <<>>, "")
    /\ records = <<>>
    /\ alerts = <<>>
    /\ screen = "Registros"
    /\ stackTop = "Registros"
    /\ userName = <<>>
    /\ userRecords = <<>>
    /\ stored \in ListedLists
    /\ tasks = <<Task("loadRecords", "getItem", <<>>, NoRecord, <<>>)>>
    /\ now = LastInstant

NextList ==
    \/ OpenHistorial
    \/ OpenInicio
    \/ \E k \in 1..MaxRecords : DeleteRecord(k)
    \/ DeleteAllRecords
    \/ CancelDeleteAll
    \/ ConfirmDeleteAll
    \/ DismissAlert
    \/ \E i \in 1..MaxInFlight :
          \/ StorageResolve(i)
          \/ StorageReject(i)
          \/ LoadRecordsDone(i)
          \/ DeleteRecordDone(i)
          \/ DeleteAllDone(i)

SpecList == InitList /\ [][NextList]_vars

-----------------------------------------------------------------------------
(* Properties of the record list *)

\* The stored array, empty when the key is absent
Doc(st) == IF st.present THEN st.val ELSE <<>>

Count(s, x) == Cardinality({i \in 1..Len(s) : s[i] = x})

\* The same entries, each as many times, in any order
SameBag(a, b) ==
    /\ Len(a) = Len(b)
    /\ \A i \in 1..Len(a) : Count(a, a[i]) = Count(b, a[i])

\* C1: the write of deleteRecord(id) takes exactly one entry, one with that
\* id, out of the stored collection when the id is stored, and leaves the
\* stored collection as it is when it is not
C1_DeleteRemovesExactlyOne ==
    [][\A i \in 1..Len(tasks) :
          (tasks[i].fn = "deleteRecord" /\ StorageResolve(i)) =>
             IF \E j \in 1..Len(Doc(stored)) : Doc(stored)[j].id = tasks[i].text
             THEN \E j \in 1..Len(Doc(stored)) :
                     /\ Doc(stored)[j].id = tasks[i].text
                     /\ SameBag(Doc(stored'), Without(Doc(stored), j))
             ELSE SameBag(Doc(stored'), Doc(stored))]_vars

\* An id no record carries
NoSuchId == <<"0">>

\* C5: when loadRecords has loaded the stored array, writing the loaded list
\* back (what deleteRecord writes for an id that matches no record) would
\* store the very array that was read, element order included
C5_RoundTripKeepsStoredArray ==
    [][\A i \in 1..Len(tasks) :
          (/\ LoadRecordsDone(i) /\ tasks[i].st = "resolved"
           /\ tasks[i].got.present /\ tasks[i].got.json) =>
             JsonStringify(FilterOut(records', NoSuchId)) = tasks[i].got.val]_vars

\* C6: when the confirmed deleteAll completes without a storage error the
\* key is absent and the list is empty, and from then on storage holds no
\* record for a load to find until calculateIMC saves one
C6_DeleteAllLeavesNothing ==
    [][/\ \A i \in 1..Len(tasks) :
             (DeleteAllDone(i) /\ tasks[i].st = "resolved") =>
                (~stored'.present /\ records' = <<>>)
       /\ (~stored.present /\ Doc(stored') # <<>>) =>
             \E i \in 1..Len(tasks) : tasks[i].fn = "calculateIMC" /\ StorageResolve(i)]_vars

\* C10: when loadRecords completes on a stored array, the list holds every
\* stored record exactly once, and the ids, read as numbers, never increase
\* down the list
C10_ListShowsAllByIdDescending ==
    [][\A i \in 1..Len(tasks) :
          (/\ LoadRecordsDone(i) /\ tasks[i].st = "resolved"
           /\ tasks[i].got.present /\ tasks[i].got.json) =>
             /\ SameBag(records', JsonParse(tasks[i].got.val))
             /\ \A j, k \in 1..Len(records') :
                   j < k => ToNumber(records'[j].id) >= ToNumber(records'[k].id)]_vars

\* The list shows two records, newest first, loaded from an array that
\* stores them oldest first
C10_Witness ==
    /\ tasks = <<>>
    /\ stored.present /\ Len(stored.val) = 2
    /\ SameBag(records, JsonParse(stored.val))
    /\ ToNumber(stored.val[1].id) < ToNumber(stored.val[2].id)
    /\ ToNumber(records[1].id) > ToNumber(records[2].id)

-----------------------------------------------------------------------------
(* The name field: texts typed on a device that holds earlier records *)

\* Texts typed into the name field
LookupTexts ==
    {<<>>, <<" ">>, <<"a", "n", "a", " ">>, <<"A", "n">>, <<" ", "B", "O">>}

\* Gender buttons pressed while lookups are under way
PressedGenders == {Hombre}

InitLookup ==
    /\ name = <<>>
    /\ gender = Hombre
    /\ weight = <<>>
    /\ height = <<>>
    /\ age = <<>>
    /\ result = Message("IMC", <<>>, <<>>, "")
    /\ records = <<>>
    /\ alerts = <<>>
    /\ screen = "Inicio"
    /\ stackTop = "Registros"
    /\ userName = <<>>
    /\ userRecords = <<>>
    /\ stored \in StoredLists
    /\ tasks = <<>>
    /\ now = LastInstant

NextLookup ==
    \/ \E t \in LookupTexts : HandleNameChange(t)
    \/ \E g \in PressedGenders : SetGender(g)
    \/ \E i \in 1..MaxInFlight :
          \/ StorageResolve(i)
          \/ StorageReject(i)
          \/ CheckExistingUserDone(i)

SpecLookup == InitLookup /\ [][NextLookup]_vars

-----------------------------------------------------------------------------
(* Properties of the user lookup *)

\* The same letter in either case, or the same character
SameLetter(a, b) ==
    \/ a = b
    \/ \E k \in 1..26 : {a, b} = {UpperCase[k], LowerCase[k]}

\* stored equals entered without its leading and trailing spaces, the case
\* of the letters set aside
MatchesEntered(storedName, entered) ==
    \E lo, hi \in 0..Len(entered) :
        /\ lo <= hi
        /\ \A k \in 1..lo : entered[k] = " "
        /\ \A k \in (hi + 1)..Len(entered) : entered[k] = " "
        /\ lo < hi => (entered[lo + 1] # " " /\ entered[hi] # " ")
        /\ Len(storedName) = hi - lo
        /\ \A k \in 1..(hi - lo) : SameLetter(storedName[k], entered[lo + k])

\* C8: a lookup that read the stored array sets the gender to that of the
\* first stored record, in stored order, whose name is the entered text
\* trimmed, case set aside; with no such record, or when the read failed, it
\* leaves the gender as it is; and a blank text starts no lookup and leaves
\* the gender as it is
C8_LookupTakesFirstMatch ==
    [][/\ \A i \in 1..Len(tasks) :
             CheckExistingUserDone(i) =>
                LET doc  == IF tasks[i].st = "resolved" THEN Doc(tasks[i].got) ELSE <<>>
                    hits == {j \in 1..Len(doc) : MatchesEntered(doc[j].name, tasks[i].text)}
                IN  /\ hits = {} => gender' = gender
                    /\ \A j \in hits :
                          (\A k \in hits : j <= k) => gender' = doc[j].gender
       /\ \A t \in LookupTexts :
             (HandleNameChange(t) /\ \A k \in 1..Len(t) : t[k] = " ") =>
                (gender' = gender /\ tasks' = tasks)]_vars

\* The text 'ana ' has been looked up in an array that holds 'Ana' (Mujer)
\* before 'ANA' (Hombre), and the gender is that of the first
C8_Witness ==
    /\ tasks = <<>>
    /\ name = <<"a", "n", "a", " ">>
    /\ gender = Mujer
    /\ Len(Doc(stored)) = 3
    /\ Doc(stored)[1].name = <<"A", "n", "a">> /\ Doc(stored)[1].gender = Mujer
    /\ Doc(stored)[3].name = <<"A", "N", "A">> /\ Doc(stored)[3].gender = Hombre

-----------------------------------------------------------------------------
(* The chart: the list shown on a device that holds a series of records of *)
(* one user among records of others                                        *)

\* Record k of the series of 'Ana', saved at instant 2k with 50 + k kg
Ana(k) ==
    Saved(<<"A", "n", "a">>, Mujer, NatToString(50 + k), <<"1", "6", "0">>, <<"3", "0">>, 2 * k)

\* The records of the others, saved in between
Bo == Saved(<<"B", "o">>, Hombre, <<"8", "0">>, <<"1", "8", "0">>, <<"4", "0">>, 3)

UpperAna ==
    Saved(<<"A", "N", "A">>, Hombre, <<"7", "0">>, <<"1", "7", "5">>, <<"3", "0">>, 5)

\* The first n records of the series and the others, in the order saved
RECURSIVE Series(_)
Series(n) == IF n = 0 THEN <<>> ELSE Series(n - 1) \o <<Ana(n)>>

History == JsonStringify(SortByDateAsc(<<Bo, UpperAna>> \o Series(MaxSeries)))

\* The entries of doc saved up to instant t
Until(doc, t) == SelectSeq(doc, LAMBDA o : DateParse(o.date) <= t)

Reversed(s) == [i \in 1..Len(s) |-> s[Len(s) + 1 - i]]

\* Series lengths held: none, one, two, the window, one more, the longest
SeriesLengths == {0, 1, 2, WindowSize, WindowSize + 1, MaxSeries}

\* Collections in the order calculateIMC appended them, and in the order a
\* deleteRecord wrote them back
ChartLists ==
    {Present(Until(History, 2 * n + 1)) : n \in SeriesLengths}
        \cup {Present(Reversed(Until(History, 2 * n + 1))) : n \in SeriesLengths}

InitChart ==
    /\ name = <<>>
    /\ gender = Hombre
    /\ weight = <<>>
    /\ height = <<>>
    /\ age = <<>>
    /\ result = Message("IMC", <<>>, <<>>, "")
    /\ stored \in ChartLists
    /\ records = SortByIdDesc(JsonParse(stored.val))
    /\ alerts = <<>>
    /\ screen = "Registros"
    /\ stackTop = "Registros"
    /\ userName = <<>>
    /\ userRecords = <<>>
    /\ tasks = <<>>
    /\ now = 2 * MaxSeries + 1

NextChart ==
    \/ \E k \in 1..(MaxSeries + 2) : OpenDetalleGrafica(k)
    \/ GoBack
    \/ OpenInicio
    \/ OpenHistorial
    \/ \E i \in 1..MaxInFlight :
          \/ StorageResolve(i)
          \/ StorageReject(i)
          \/ LoadRecordsDone(i)
          \/ LoadUserRecordsDone(i)

SpecChart == InitChart /\ [][NextChart]_vars

-----------------------------------------------------------------------------
(* Properties of the chart *)

\* C7: the chart of a user with n loaded records has a label and a value for
\* each of the last min(n, 7) records and for no other, in the order of the
\* list, which is the order of their dates
C7_ChartShowsLastSeven ==
    LET n == Len(userRecords)
        m == IF n < 7 THEN n ELSE 7
        c == GetChartData(userRecords, userName)
    IN  n > 0 =>
          /\ Len(c.labels) = m /\ Len(c.data) = m
          /\ \A j \in 1..m :
                /\ c.labels[j] = DateLabel(userRecords[n - m + j].date)
                /\ c.data[j] = ParseFloat(userRecords[n - m + j].imc)
          /\ \A j, k \in 1..m : j < k => c.labels[j][2] <= c.labels[k][2]

\* Ten records of 'Ana' are loaded
C7_Witness ==
    /\ tasks = <<>>
    /\ userName = <<"A", "n", "a">>
    /\ Len(userRecords) = 10
    /\ Len(GetChartData(userRecords, userName).data) = 7

\* C9: when loadUserRecords completes on a stored array, the records shown
\* are the stored records whose name is userName, character for character,
\* each exactly once, and their dates never decrease down the list
C9_UserRecordsByNameAndDate ==
    [][\A i \in 1..Len(tasks) :
          (/\ LoadUserRecordsDone(i)
           /\ tasks[i].st = "resolved" /\ tasks[i].live
           /\ tasks[i].got.present /\ tasks[i].got.json) =>
             LET all == JsonParse(tasks[i].got.val)
             IN  /\ \A j \in 1..Len(userRecords') : userRecords'[j].name = userName
                 /\ \A j \in 1..Len(all) :
                       all[j].name = userName =>
                          Count(userRecords', all[j]) = Count(all, all[j])
                 /\ Len(userRecords') =
                       Cardinality({j \in 1..Len(all) : all[j].name = userName})
                 /\ \A j, k \in 1..Len(userRecords') :
                       j < k => DateParse(userRecords'[j].date)
                                   <= DateParse(userRecords'[k].date)]_vars

\* Two or more records of 'Ana' are shown, oldest first, loaded from an array
\* that holds the newest first and a record of 'ANA' as well
C9_Witness ==
    /\ tasks = <<>>
    /\ userName = <<"A", "n", "a">>
    /\ Len(userRecords) >= 2
    /\ DateParse(userRecords[1].date) < DateParse(userRecords[2].date)
    /\ \E j \in 1..Len(stored.val) : stored.val[j].name = <<"A", "N", "A">>
    /\ DateParse(stored.val[1].date) > DateParse(stored.val[Len(stored.val)].date)

-----------------------------------------------------------------------------
(* Reloading: the screens of Historial regain focus over a store that may  *)
(* have become unreadable meanwhile                                         *)

\* The text under the key is replaced, from outside the handlers, by one that
\* is no JSON
StorageDamaged ==
    /\ stored.present /\ stored.json
    /\ stored' = Unparsable
    /\ UNCHANGED <<homeVars, records, alerts, screen, stackTop, userName, userRecords,
                   tasks, now>>

InitReload ==
    /\ name = <<>>
    /\ gender = Hombre
    /\ weight = <<>>
    /\ height = <<>>
    /\ age = <<>>
    /\ result = Message("IMC", <<>>, <<>>, "")
    /\ records = <<>>
    /\ alerts = <<>>
    /\ screen = "Registros"
    /\ stackTop = "Registros"
    /\ userName = <<>>
    /\ userRecords = <<>>
    /\ stored \in ListedLists \cup {Unparsable}
    /\ tasks = <<Task("loadRecords", "getItem", <<>>, NoRecord, <<>>)>>
    /\ now = LastInstant

NextReload ==
    \/ OpenHistorial
    \/ OpenInicio
    \/ \E k \in 1..MaxRecords : OpenDetalleGrafica(k)
    \/ GoBack
    \/ \E k \in 1..MaxRecords : DeleteRecord(k)
    \/ StorageDamaged
    \/ \E i \in 1..MaxInFlight :
          \/ StorageResolve(i)
          \/ StorageReject(i)
          \/ LoadRecordsDone(i)
          \/ LoadUserRecordsDone(i)
          \/ DeleteRecordDone(i)

SpecReload == InitReload /\ [][NextReload]_vars

-----------------------------------------------------------------------------
(* Properties of reloading *)

\* getItem gave null, or a text that JSON.parse rejects
NothingReadable(t) ==
    /\ t.op = "getItem" /\ t.st = "resolved"
    /\ ~t.got.present \/ ~t.got.json

\* C11: when loadRecords or loadUserRecords completes on an absent or an
\* unparsable stored value, the list of its view is empty afterwards,
\* whatever it held before, and no dialog is raised
C11_UnreadableLoadsEmpty ==
    [][\A i \in 1..Len(tasks) :
          /\ (LoadRecordsDone(i) /\ NothingReadable(tasks[i])) =>
                (records' = <<>> /\ alerts' = alerts)
          /\ (LoadUserRecordsDone(i) /\ tasks[i].live /\ NothingReadable(tasks[i])) =>
                (userRecords' = <<>> /\ alerts' = alerts)]_vars

-----------------------------------------------------------------------------
(* The Home screen from a fresh install: forms filled and saved one after   *)
(* the other, under a device clock that the system may also set back        *)

\* The system clock is adjusted backwards (a time correction, or the user
\* setting the time): Date.now() gives an instant it has given before
ClockSetBack ==
    /\ now > FirstInstant
    /\ now' \in FirstInstant..(now - 1)
    /\ UNCHANGED <<homeVars, records, alerts, screen, stackTop, userName, userRecords,
                   stored, tasks>>

\* The name typed into each form
HomeNames == {<<"A", "n", "a">>}

\* The 'Calcular' button, pressed for as long as fewer than MaxForms records
\* are stored or on their way
SaveForm == Committed < MaxForms /\ CalculateIMC

NextHome ==
    \/ Tick
    \/ ClockSetBack
    \/ \E t \in HomeNames : HandleNameChange(t)
    \/ \E t \in WeightTexts : HandleChangeWeight(t)
    \/ \E t \in HeightTexts : HandleChangeHeight(t)
    \/ \E t \in AgeTexts : HandleChangeAge(t)
    \/ SaveForm
    \/ \E i \in 1..MaxInFlight :
          \/ StorageResolve(i)
          \/ CheckExistingUserDone(i)
          \/ CalculateIMCRead(i)
          \/ CalculateIMCSaved(i)

SpecHome == Init /\ [][NextHome]_vars

-----------------------------------------------------------------------------
(* Properties of the ids *)

\* The ids of a sequence of records
Ids(rs) == {rs[i].id : i \in 1..Len(rs)}

\* No two entries of the sequence carry the same id
DistinctIds(rs) == \A i, j \in 1..Len(rs) : rs[i].id = rs[j].id => i = j

\* The ids that records created so far still carry: in storage, in the lists
\* on screen and in the saves and writes under way
IdsInUse ==
    Ids(Doc(stored)) \cup Ids(records) \cup Ids(userRecords)
        \cup UNION {Ids(tasks[i].recs) : i \in 1..Len(tasks)}
        \cup {tasks[i].rec.id : i \in {j \in 1..Len(tasks) : tasks[j].fn = "calculateIMC"}}

\* C12: the ids of the stored records are pairwise distinct, and the record
\* that calculateIMC creates gets an id that no record created before it
\* carries
C12_IdsUniqueNeverReused ==
    [][/\ DistinctIds(Doc(stored'))
       /\ (CalculateIMC /\ Len(tasks') > Len(tasks)) =>
             tasks'[Len(tasks')].rec.id \notin IdsInUse]_vars

-----------------------------------------------------------------------------
(* Properties of the records calculateIMC builds, continued *)

\* The stored imc text in hundredths: "19.53" is 1953
StoredHundredths(r) ==
    DigitsVal(SubSeq(r.imc, 1, Len(r.imc) - 3) \o SubSeq(r.imc, Len(r.imc) - 1, Len(r.imc)))

\* The threshold table applied to a gender and an imc in hundredths
TableEntry(g, v) ==
    IF g = "Hombre"
    THEN IF v < 2000 THEN "Bajo peso"
         ELSE IF v < 2500 THEN "Peso normal"
         ELSE IF v < 3000 THEN "Sobrepeso"
         ELSE "Obesidad"
    ELSE IF v < 1800 THEN "Bajo peso"
         ELSE IF v < 2400 THEN "Peso normal"
         ELSE IF v < 2900 THEN "Sobrepeso"
         ELSE "Obesidad"

\* C13: the classification of every record built by calculateIMC is the one
\* the threshold table gives for the record's own gender and its own imc
\* field, the text with two fractional digits
C13_ClassificationMatchesStoredImc ==
    \A r \in Built : r.classification = TableEntry(r.gender, StoredHundredths(r))

-----------------------------------------------------------------------------
(* A session: a filled form on the Home screen of a device that may hold an *)
(* earlier record; the form is saved and Historial is visited                *)

InitSession ==
    /\ name = <<"A", "n", "a">>
    /\ gender = Mujer
    /\ weight = <<"7", "0">>
    /\ height = <<"1", "7", "5">>
    /\ age = <<"3", "0">>
    /\ result = Message("IMC", <<>>, <<>>, "")
    /\ records = <<>>
    /\ alerts = <<>>
    /\ screen = "Inicio"
    /\ stackTop = "Registros"
    /\ userName = <<>>
    /\ userRecords = <<>>
    /\ stored \in {Absent, Present(JsonStringify(<<Second>>))}
    /\ tasks = <<>>
    /\ now = LastInstant

NextSession ==
    \/ CalculateIMC
    \/ OpenHistorial
    \/ OpenInicio
    \/ \E k \in 1..MaxRecords : DeleteRecord(k)
    \/ DeleteAllRecords
    \/ CancelDeleteAll
    \/ ConfirmDeleteAll
    \/ DismissAlert
    \/ \E i \in 1..MaxInFlight :
          \/ StorageResolve(i)
          \/ StorageReject(i)
          \/ CalculateIMCRead(i)
          \/ CalculateIMCSaved(i)
          \/ LoadRecordsDone(i)
          \/ DeleteRecordDone(i)
          \/ DeleteAllDone(i)

SpecSession == InitSession /\ [][NextSession]_vars

-----------------------------------------------------------------------------
(* Properties of the writes *)

\* The array a write derives from what its own operation read: the read
\* collection with the new record appended, or with the entries of the
\* deleted id taken out
DerivedFrom(w, got) ==
    \/ w.fn = "calculateIMC" /\ w.recs = Append(ParseOrEmpty(got), w.rec)
    \/ w.fn = "deleteRecord" /\ w.recs = FilterOut(ParseOrEmpty(got), w.text)

\* C14: every setItem that calculateIMC or deleteRecord issues is issued by a
\* step of an operation that has read the collection from storage, and the
\* array it writes derives from what that read gave
C14_WritesFollowOwnRead ==
    [][\A j \in 1..Len(tasks') :
          (/\ tasks'[j].op = "setItem" /\ tasks'[j].st = "pending"
           /\ \A i \in 1..Len(tasks) : tasks[i] # tasks'[j]) =>
             \E i \in 1..Len(tasks) :
                /\ tasks[i].fn = tasks'[j].fn
                /\ tasks[i].op = "getItem" /\ tasks[i].st = "resolved"
                /\ DerivedFrom(tasks'[j], tasks[i].got)]_vars

-----------------------------------------------------------------------------
(* Properties of the save step *)

\* The step shows the success text of record r and clears the form
DeclaresSaved(r) ==
    /\ result' = Message("result", r.name, r.imc, r.classification)
    /\ name' = <<>> /\ weight' = <<>> /\ height' = <<>> /\ age' = <<>>

\* C15: the step of calculateIMC that starts the save has by then shown the
\* success text and cleared the form; when the getItem or the setItem of
\* the save is rejected, the rejection and the catch block that handles it
\* change neither the stored collection nor the result box nor the form,
\* raise no dialog, and the save is given up with no further request
C15_FailedSaveStaysSilent ==
    [][/\ (CalculateIMC /\ Len(tasks') > Len(tasks)) =>
             DeclaresSaved(tasks'[Len(tasks')].rec)
       /\ \A i \in 1..Len(tasks) :
             tasks[i].fn = "calculateIMC" =>
                /\ StorageReject(i) =>
                      (stored' = stored /\ alerts' = alerts /\ UNCHANGED homeVars)
                /\ (tasks[i].st = "rejected"
                       /\ (CalculateIMCRead(i) \/ CalculateIMCSaved(i))) =>
                      /\ stored' = stored /\ alerts' = alerts
                      /\ UNCHANGED homeVars
                      /\ tasks' = Without(tasks, i)]_vars

\* The setItem of a save was rejected and its catch block has run: nothing
\* is stored, nothing is pending, and the success text is on screen
C15_Witness ==
    /\ tasks = <<>>
    /\ ~stored.present
    /\ result.kind = "result"
    /\ name = <<>>

-----------------------------------------------------------------------------
(* Properties of the confirmation dialog *)

\* The removeItem requests under way
Removals(ts) == {i \in 1..Len(ts) : ts[i].op = "removeItem"}

\* C16: opening the confirmation dialog of deleteAllRecords and leaving it
\* by 'Cancelar' or a touch outside change neither the stored collection nor
\* the list on screen and start no request; a removeItem is started by the
\* confirming button only
C16_DeleteAllNeedsConfirmation ==
    [][/\ (DeleteAllRecords \/ CancelDeleteAll) =>
             (stored' = stored /\ records' = records /\ tasks' = tasks)
       /\ Cardinality(Removals(tasks')) > Cardinality(Removals(tasks)) =>
             ConfirmDeleteAll]_vars

\* The dialog was opened and left without confirming: the list is shown as
\* loaded, storage holds it, and nothing was requested
C16_Witness ==
    /\ alerts = <<"Confirmar">>
    /\ tasks = <<>>
    /\ records # <<>>
    /\ stored.present /\ SameBag(records, JsonParse(stored.val))

-----------------------------------------------------------------------------
(* Properties of the validations *)

\* The form holds a name and a numeric field whose text is no number
UnparsedForm ==
    /\ Trim(name) # <<>>
    /\ ParseFloat(weight).nan \/ ParseFloat(height).nan \/ ParseFloat(age).nan

\* C17: with a name in the form and a weight, height or age text that is no
\* number, a step starts no save, leaves the stored collection as it is, and
\* the only result text it can show is 'invalid values'
C17_UnparsedRejected ==
    [][UnparsedForm =>
          /\ tasks' = tasks
          /\ stored' = stored
          /\ result' # result => result'.kind = "invalid values"]_vars

\* calculateIMC has answered a form whose height is empty, weight and age
\* being numbers, with the error, nothing being saved
C17_Witness ==
    /\ UnparsedForm
    /\ ParseFloat(height).nan /\ ~ParseFloat(weight).nan /\ ~ParseFloat(age).nan
    /\ result.kind = "invalid values"
    /\ tasks = <<>>

\* The name is empty or only white space
BlankName == Trim(name) = <<>>

\* C18: a press of calculateIMC on a form whose name is blank, whatever the
\* numeric fields hold, shows 'missing name', starts no save and leaves the
\* stored collection as it is
C18_BlankNameRejected ==
    [][(BlankName /\ CalculateIMC) =>
          /\ tasks' = tasks
          /\ stored' = stored
          /\ result'.kind = "missing name"]_vars

\* calculateIMC has answered a form whose name is a space, next to three
\* valid numbers, with the error, nothing being saved
C18_Witness ==
    /\ name = <<" ">>
    /\ Validate(<<"A">>, ParseFloat(weight), ParseFloat(height), ParseFloat(age)) = "result"
    /\ result.kind = "missing name"
    /\ tasks = <<>>

\* The texts of the three validation errors
ErrorKinds == {"missing name", "invalid values", "values must be positive"}

\* C19: a press of calculateIMC that ends in a validation error changes the
\* result text to that error and nothing else: name, gender, weight, height
\* and age keep their values, and nothing is requested or stored
C19_ErrorKeepsForm ==
    [][(CalculateIMC /\ result'.kind \in ErrorKinds) =>
          /\ UNCHANGED <<name, gender, weight, height, age>>
          /\ tasks' = tasks /\ stored' = stored
          /\ result'.kind =
                Validate(name, ParseFloat(weight), ParseFloat(height), ParseFloat(age))]_vars

\* An error text is shown over a form that still holds its name and its
\* three numeric texts
C19_Witness ==
    /\ result.kind = "values must be positive"
    /\ name # <<>> /\ weight # <<>> /\ height # <<>> /\ age # <<>>
    /\ tasks = <<>>

-----------------------------------------------------------------------------
(* Properties of the records *)

\* The elements of a sequence
Elements(seq) == {seq[i] : i \in 1..Len(seq)}

\* The objects of the JSON texts: in storage and in the results of reads
StoredObjects ==
    Elements(Doc(stored)) \cup UNION {Elements(Doc(tasks[i].got)) : i \in 1..Len(tasks)}

\* The records in memory: in the lists of the screens, in the arrays about
\* to be written and in the record a save is appending
HeldRecords ==
    Elements(records)
        \cup Elements(userRecords)
        \cup UNION {Elements(tasks[i].recs) : i \in 1..Len(tasks)}
        \cup {tasks[i].rec : i \in {j \in 1..Len(tasks) : tasks[j].fn = "calculateIMC"}}

\* The record calculateIMC creates from the form at this instant, if the form
\* is valid
CreatedNow ==
    IF Validate(name, ParseFloat(weight), ParseFloat(height), ParseFloat(age)) = "result"
    THEN {NewResult(ParseFloat(weight), ParseFloat(height), ParseFloat(age))}
    ELSE {}

\* C20: a record is immutable once created: every record held after a step,
\* in storage or in memory, with all its nine fields (id, name, gender, age,
\* weight, height, imc, classification, date), is a record that was held
\* before the step, in storage or in memory, or the one calculateIMC creates
\* in this step; no add, load, delete or delete-all changes a field of a
\* record
C20_RecordsImmutable ==
    [][/\ \A o \in StoredObjects' :
             \/ o \in StoredObjects
             \/ \E r \in HeldRecords : JsonObject(r) = o
       /\ \A r \in HeldRecords' :
             \/ r \in HeldRecords
             \/ JsonObject(r) \in StoredObjects
             \/ CalculateIMC /\ r \in CreatedNow]_vars

\* An earlier record is still stored unchanged after a new record was added,
\* the list was loaded and the new record was deleted again
C20_Witness ==
    /\ tasks = <<>>
    /\ result.kind = "result"
    /\ screen = "Registros"
    /\ records = <<Second>>
    /\ stored = Present(JsonStringify(<<Second>>))

-----------------------------------------------------------------------------
(* Properties of the failed deletes *)

\* The dialog the catch block of a delete shows
ErrorDialog(fn) == IF fn = "deleteRecord" THEN "Error: eliminar" ELSE "Error: eliminar todos"

\* Request i is the rejected setItem of deleteRecord or the rejected
\* removeItem of the confirmed deleteAll, and this step runs its catch block
FailedDeleteHandled(i) ==
    /\ tasks[i].fn \in {"deleteRecord", "deleteAllRecords"}
    /\ tasks[i].st = "rejected"
    /\ tasks' = Without(tasks, i)

-----------------------------------------------------------------------------
(* Properties of the interleavings *)

\* This step is the storage performing a request that is meant to remove
\* the stored object o: the setItem of a deleteRecord with the id of o, or
\* the removeItem of the confirmed deleteAll
RemovedOnRequest(o) ==
    \E i \in 1..Len(tasks) :
       /\ StorageResolve(i)
       /\ \/ tasks[i].op = "removeItem"
          \/ tasks[i].fn = "deleteRecord" /\ tasks[i].text = o.id

\* C22: no persisted record is lost to another operation: a record of the
\* stored collection is still in it after every step, whatever the
\* interleaving of the reads and writes of calculateIMC, loadRecords and
\* deleteRecord, unless the step performs the write of a deleteRecord with
\* its id or the removal of a confirmed deleteAll
C22_NoPersistedRecordLost ==
    [][\A o \in Elements(Doc(stored)) :
          o \in Elements(Doc(stored')) \/ RemovedOnRequest(o)]_vars

-----------------------------------------------------------------------------
(* The name field typed into with no gender button pressed and every read *)
(* answered                                                               *)

NextTyping ==
    \/ \E t \in LookupTexts : HandleNameChange(t)
    \/ \E i \in 1..MaxInFlight :
          \/ StorageResolve(i)
          \/ CheckExistingUserDone(i)

SpecTyping == InitLookup /\ [][NextTyping]_vars

\* The stored records, in stored order, whose name is the current text of
\* the name field trimmed, case set aside
CurrentMatches == {j \in 1..Len(Doc(stored)) : MatchesEntered(Doc(stored)[j].name, name)}

\* C23: gender auto-fill follows the current name: once all started lookups
\* have completed, with no gender button pressed and the stored collection as
\* it was, if the current name matches a stored record the selected gender is
\* that of the first stored record matching the current name, whatever order
\* the lookups completed in
C23_GenderFollowsCurrentName ==
    (tasks = <<>> /\ CurrentMatches # {}) =>
        \A j \in CurrentMatches :
           (\A k \in CurrentMatches : j <= k) => gender = Doc(stored)[j].gender

-----------------------------------------------------------------------------
(* Properties of the chart under stale loads *)

\* The loadUserRecords calls of the mounted DetalleGrafica still under way
LoadsUnderWay ==
    {i \in 1..Len(tasks) : tasks[i].fn = "loadUserRecords" /\ tasks[i].live}

====
